---- MODULE Spec2Model ----
(* Verification model of pcd-lod: the serial and the partitioned parallel    *)
(* Poisson-disk samplers, the octree division of PointCloudMap and the LOD   *)
(* pipeline loop of process_lod.                                             *)
(*                                                                           *)
(* Geometry is exact: positions are integer lattice points and the radius is *)
(* carried as its square, a rational <<num, den>>, so that every comparison  *)
(* the code makes on f64 (dist <= r, floor(d / cell_size), ceil(...)) is     *)
(* decided in integer arithmetic.  cell_size = r / sqrt(3), hence            *)
(*   floor(d / cell_size) = max k : k^2 * num <= 3 * d^2 * den.              *)
EXTENDS Integers, Sequences, FiniteSets, TLC

\* ---------------------------------------------------------------- bounds
\* serial sampler: inputs of at most MaxPts points of the lattice
\* (0 .. MaxX) x (0 .. MaxY) x (0 .. MaxZ), radius^2 = n/4 for n in 1 .. MaxRadiusSq
MaxX == 1
MaxY == 1
MaxZ == 0
MaxPts == 2
MaxRadiusSq == 5

Positions == (0 .. MaxX) \X (0 .. MaxY) \X (0 .. MaxZ)

\* parallel sampler: inputs of at most ParMaxPts points on the line
\* (0 .. ParMaxX) x {0} x {0}; MaxExtraSteps calls of step() past completion
ParMaxX == 2
ParMaxPts == 3
MaxExtraSteps == 1

ParPositions == (0 .. ParMaxX) \X {0} \X {0}

\* pipeline: at most LodMaxPts points on the line (0 .. LodMaxX) x {0} x {0},
\* threshold 2^e for e in 0 .. MaxThresholdExp, levels up to MaxLod
LodMaxX == 3
LodMaxPts == 3
MaxThresholdExp == 1
MaxLod == 4

\* tokens on a line handed to Point::try_parse
MaxTokens == 8

\* points handed to BoundingBox::from_iter, and their x range
BoxMaxX == 1
BoxMaxPts == 2

\* points handed to the Encoder
MaxImagePts == 17

\* the coordinates handed to encode_8bit_4channels: octets 0 .. MaxOctet and
\* 255 for the high 32 bits, 0 .. MaxLow for the bits below them
MaxOctet == 1
MaxLow == 1

\* cells along an axis of the grids handed to the partitioning
MaxGridCount == 5

LodPositions == (0 .. LodMaxX) \X {0} \X {0}

VARIABLES
    inputs,      \* sample(inputs, radius): the input slice, a sequence of positions
    radius_sq,   \* radius^2 as <<num, den>>
    u_grid_size, \* the grid dimensions <<x, y, z>>
    cell_index,  \* index(p) of every input, as the closure `index` computes it
    grid,        \* cell -> [representative: 0 (None) or an index of inputs, candidates: Seq of indices]
    indices,     \* HashSet of the cells still pending
    actives,     \* Vec of the active points (indices of inputs)
    result,      \* the returned Vec (indices of inputs, in grid order)
    spc          \* position of the serial sampler: idle, new, start, loop, done, panic

sampler_vars == <<inputs, radius_sq, u_grid_size, cell_index, grid, indices, actives, result, spc>>

\* ParallelPoissonDiskSampling: it is built from `inputs` and `radius_sq`;
\* u_grid_size is its grid_count and cell_index its index() of every input.
VARIABLES
    p_grid,            \* the sampler's grid, as `grid` above
    partitions,        \* the offsets not popped yet; the Vec is shuffled, so pop() may return any of them
    partitions_count,  \* partitions.len() at construction
    p_steps,           \* number of step() calls that returned Ok
    p_errs,            \* number of step() calls that returned Err
    ppc                \* new (before new()), ready, panic

parallel_vars == <<p_grid, partitions, partitions_count, p_steps, p_errs, ppc>>

\* process_lod
VARIABLES
    points,              \* the parsed input, a sequence of positions; a point is named by its index
    threshold,           \* point_count_threshold
    parent_map,          \* PointCloudMap: [lod, map], map: key -> Seq of point indices
    next_map,            \* `next` of the loop body
    has_over_threshold,  \* the flag of the loop body
    to_sample,           \* keys of `next` whose sampler.sample call has not returned yet
    sampling,            \* the key whose bucket is inside sampler.sample, or NoKey
    samples,             \* key -> the points to emit (Seq of point indices)
    emit_left,           \* keys of `samples` the emission loop has not reached yet
    coordinates,         \* Coordinates: lod -> (c_key -> BoundingBox)
    emitted,             \* <<lod, key>> -> the per-unit callback invocations of that cell
    lod_calls,           \* the per-level callback invocations so far, in order
    last_call,           \* the callback invoked last, or NoCall
    call_result,         \* what the callback invoked last returned: "none", "ok", "err"
    lpc                  \* position of process_lod

lod_vars == <<points, threshold, parent_map, next_map, has_over_threshold, to_sample,
              sampling, samples, emit_left, coordinates, emitted, lod_calls, last_call,
              call_result, lpc>>

\* the functions without state (Point::try_parse, BoundingBox, Encoder) are
\* applied once to an argument
VARIABLES
    arg,   \* the argument of the call
    ret,   \* the value returned, NoValue before the call returns
    fpc    \* idle, call, returned

pure_vars == <<arg, ret, fpc>>

NoValue == <<"no value">>

\* ------------------------------------------------------- exact arithmetic
Max2(a, b) == IF a >= b THEN a ELSE b
Min2(a, b) == IF a <= b THEN a ELSE b

RECURSIVE FloorFrom(_, _, _)
FloorFrom(k, d, r2) ==
    IF (k + 1) * (k + 1) * r2[1] > 3 * d * d * r2[2] THEN k ELSE FloorFrom(k + 1, d, r2)

\* (d / cell_size).floor() for d >= 0 and radius > 0
floor_cells(d, r2) == FloorFrom(0, d, r2)

RECURSIVE CeilFrom(_, _, _)
CeilFrom(k, d, r2) ==
    IF k * k * r2[1] >= 3 * d * d * r2[2] THEN k ELSE CeilFrom(k + 1, d, r2)

\* (d / cell_size).ceil() for d >= 0 and radius > 0
ceil_cells(d, r2) == CeilFrom(0, d, r2)

\* squared norm of p - q
norm_squared(p, q) ==
    (p[1] - q[1]) * (p[1] - q[1]) + (p[2] - q[2]) * (p[2] - q[2]) + (p[3] - q[3]) * (p[3] - q[3])

\* (p - q).norm() <= radius
within_radius(p, q, r2) == norm_squared(p, q) * r2[2] <= r2[1]

\* half_radius <= (p - q).norm()
beyond_half_radius(p, q, r2) == r2[1] <= 4 * norm_squared(p, q) * r2[2]

RECURSIVE SeqMin(_, _)
SeqMin(s, a) == IF Len(s) = 1 THEN s[1][a] ELSE Min2(s[1][a], SeqMin(Tail(s), a))

RECURSIVE SeqMax(_, _)
SeqMax(s, a) == IF Len(s) = 1 THEN s[1][a] ELSE Max2(s[1][a], SeqMax(Tail(s), a))

\* min_max of a non-empty slice: componentwise minimum and maximum
min_max(ps) ==
    [min |-> <<SeqMin(ps, 1), SeqMin(ps, 2), SeqMin(ps, 3)>>,
     max |-> <<SeqMax(ps, 1), SeqMax(ps, 2), SeqMax(ps, 3)>>]

\* ------------------------------------------------------- sampler geometry
\* grid_size = size.map(|x| (x / cell_size).ceil().max(1)).  For an empty
\* slice min = MAX and max = -MAX, size = -inf and the result is 1 per axis;
\* for radius 0 the quotient is NaN (size 0) and max(NaN, 1) = 1.
grid_size(ps, r2) ==
    IF ps = <<>> \/ r2[1] = 0 THEN <<1, 1, 1>>
    ELSE LET mm == min_max(ps) IN
         [a \in 1 .. 3 |-> Max2(1, ceil_cells(mm.max[a] - mm.min[a], r2))]

\* index(p) = ((p - min) / cell_size).floor().to_usize().unwrap();
\* to_usize() is None for NaN or inf (radius 0), written NoIndex here.
NoIndex == <<-1, -1, -1>>

index(p, min, r2) ==
    IF r2[1] = 0 THEN NoIndex
    ELSE [a \in 1 .. 3 |-> floor_cells(p[a] - min[a], r2)]

\* index of every input of a slice
index_all(ps, r2) ==
    IF ps = <<>> THEN <<>>
    ELSE LET min == min_max(ps).min IN [i \in 1 .. Len(ps) |-> index(ps[i], min, r2)]

Cells(gs) == (0 .. gs[1] - 1) \X (0 .. gs[2] - 1) \X (0 .. gs[3] - 1)

InGrid(c, gs) == \A a \in 1 .. 3 : 0 <= c[a] /\ c[a] < gs[a]

\* Grid::new / Grid::insert applied to every input in order: the candidates
\* of a cell are the inputs indexed into it, in input order.
RECURSIVE SelectIdx(_, _, _, _)
SelectIdx(i, c, ci, acc) ==
    IF i > Len(ci) THEN acc
    ELSE SelectIdx(i + 1, c, ci, IF ci[i] = c THEN Append(acc, i) ELSE acc)

bucketed(gs, ci) ==
    [c \in Cells(gs) |-> [representative |-> 0, candidates |-> SelectIdx(1, c, ci, <<>>)]]

\* grid[i.z][i.y][i.x] panics when an index is outside the grid, and
\* unwrap() panics when to_usize() is None.
bucketing_panics(gs, ci) == \E i \in 1 .. Len(ci) : ~InGrid(ci[i], gs)

\* Grid::visited
visited(g) == g.representative # 0

\* the offsets the serial is_valid walks: `for d in -1..1`, an exclusive range
SerialOffsets == {-1, 0}

\* faulty variant: the neighbours are tested against twice the radius
is_valid_double_radius(p, g, ps, ci, gs, r2) ==
    LET i == ci[p] IN
    \A dz \in SerialOffsets, dy \in SerialOffsets, dx \in SerialOffsets :
       LET c == <<i[1] + dx, i[2] + dy, i[3] + dz>> IN
       (/\ ~(dx = 0 /\ dy = 0 /\ dz = 0)
        /\ InGrid(c, gs)
        /\ g[c].representative # 0)
       => ~within_radius(ps[p], ps[g[c].representative], <<4 * r2[1], r2[2]>>)

\* is_valid of the serial sampler
is_valid(p, g, ps, ci, gs, r2) ==
    LET i == ci[p] IN
    \A dz \in SerialOffsets, dy \in SerialOffsets, dx \in SerialOffsets :
       LET c == <<i[1] + dx, i[2] + dy, i[3] + dz>> IN
       (/\ ~(dx = 0 /\ dy = 0 /\ dz = 0)
        /\ InGrid(c, gs)
        /\ g[c].representative # 0)
       => ~within_radius(ps[p], ps[g[c].representative], r2)

\* faulty variant: the cell hands its candidates over when it gets a representative
insert_grid_consuming(p, g, ci) ==
    [g EXCEPT ![ci[p]] = [representative |-> p, candidates |-> <<>>]]

\* insert: push on actives, set the representative of index(p), drop the cell
insert_grid(p, g, ci) == [g EXCEPT ![ci[p]].representative = p]

\* faulty variant: the cell of an inserted point stays pending
insert_indices_keeping(p, ind, ci) == ind

insert_indices(p, ind, ci) == ind \ {ci[p]}

\* position of a neighbour offset in the (dz, dy, dx) enumeration order
OffsetRank(c, i) == (c[3] - i[3] + 1) * 9 + (c[2] - i[2] + 1) * 3 + (c[1] - i[1] + 1)

\* neighbor_indices: the in-grid, unvisited cells around i, itself excluded
neighbor_indices(i, g, gs) ==
    {c \in Cells(gs) : /\ c # i
                       /\ \A a \in 1 .. 3 : c[a] - i[a] \in {-1, 0, 1}
                       /\ ~visited(g[c])}

\* the candidates of cell c that find_any may return for `current`
frontier_matches(c, cur, g, ps, ci, gs, r2) ==
    {q \in {g[c].candidates[n] : n \in 1 .. Len(g[c].candidates)} :
        /\ beyond_half_radius(ps[cur], ps[q], r2)
        /\ within_radius(ps[cur], ps[q], r2)
        /\ is_valid(q, g, ps, ci, gs, r2)}

\* collect result: representatives in grid order (z, then y, then x)
CellRank(c, gs) == c[1] + gs[1] * (c[2] + gs[2] * c[3])

collect_result(g, gs) ==
    LET vis == {c \in Cells(gs) : visited(g[c])}
        nth(n) == CHOOSE c \in vis :
                     Cardinality({d \in vis : CellRank(d, gs) < CellRank(c, gs)}) = n - 1
    IN [n \in 1 .. Cardinality(vis) |-> g[nth(n)].representative]

\* ------------------------------------------------- serial sampler: actions
\* sample(), lines 33-91: bounds, grid allocation, bucketing, pending set
Bucket ==
    /\ spc = "new"
    /\ u_grid_size' = grid_size(inputs, radius_sq)
    /\ cell_index' = index_all(inputs, radius_sq)
    /\ IF bucketing_panics(u_grid_size', cell_index')
       THEN /\ spc' = "panic"
            /\ UNCHANGED <<grid, indices>>
       ELSE /\ grid' = bucketed(u_grid_size', cell_index')
            /\ indices' = {c \in DOMAIN grid' : grid'[c].candidates # <<>>}
            /\ spc' = "start"
    /\ actives' = <<>>
    /\ UNCHANGED <<inputs, radius_sq, result, parallel_vars, lod_vars, pure_vars>>

\* lines 135-138: indices.iter().next().unwrap() and the first insert
Start ==
    /\ spc = "start"
    /\ IF indices = {}
       THEN /\ spc' = "panic"
            /\ UNCHANGED <<grid, indices, actives>>
       ELSE \E i \in indices :
              LET start == grid[i].candidates[1] IN
              /\ grid' = insert_grid(start, grid, cell_index)
              /\ indices' = insert_indices(start, indices \ {i}, cell_index)
              /\ actives' = Append(actives, start)
              /\ spc' = "loop"
    /\ UNCHANGED <<inputs, radius_sq, u_grid_size, cell_index, result, parallel_vars, lod_vars, pure_vars>>

\* one iteration of the while loop with actives empty (lines 141-162)
LoopFresh ==
    /\ spc = "loop"
    /\ indices # {}
    /\ actives = <<>>
    /\ \E i \in indices :
         LET valid == {n \in 1 .. Len(grid[i].candidates) :
                          is_valid(grid[i].candidates[n], grid, inputs, cell_index,
                                   u_grid_size, radius_sq)}
         IN IF valid # {}
            THEN LET next == grid[i].candidates[CHOOSE n \in valid : \A m \in valid : n <= m] IN
                 /\ grid' = insert_grid(next, grid, cell_index)
                 /\ indices' = insert_indices(next, indices \ {i}, cell_index)
                 /\ actives' = Append(actives, next)
            ELSE /\ indices' = indices \ {i}
                 /\ UNCHANGED <<grid, actives>>
    /\ UNCHANGED <<inputs, radius_sq, u_grid_size, cell_index, result, spc, parallel_vars, lod_vars, pure_vars>>

\* one iteration of the while loop with actives non-empty (lines 163-225)
LoopFrontier ==
    /\ spc = "loop"
    /\ indices # {}
    /\ actives # <<>>
    /\ LET current == Head(actives)
           i == cell_index[current]
           hits == {c \in neighbor_indices(i, grid, u_grid_size) :
                       frontier_matches(c, current, grid, inputs, cell_index,
                                        u_grid_size, radius_sq) # {}}
       IN IF hits # {}
          THEN LET c == CHOOSE c \in hits : \A d \in hits : OffsetRank(c, i) <= OffsetRank(d, i) IN
               \E p \in frontier_matches(c, current, grid, inputs, cell_index,
                                         u_grid_size, radius_sq) :
                  /\ grid' = insert_grid(p, grid, cell_index)
                  /\ indices' = insert_indices(p, indices, cell_index)
                  /\ actives' = Append(actives, p)
          ELSE /\ actives' = Tail(actives)
               /\ UNCHANGED <<grid, indices>>
    /\ UNCHANGED <<inputs, radius_sq, u_grid_size, cell_index, result, spc, parallel_vars, lod_vars, pure_vars>>

\* loop exit and result collection (lines 140, 228-234)
Collect ==
    /\ spc = "loop"
    /\ indices = {}
    /\ result' = collect_result(grid, u_grid_size)
    /\ spc' = "done"
    /\ UNCHANGED <<inputs, radius_sq, u_grid_size, cell_index, grid, indices, actives, parallel_vars, lod_vars, pure_vars>>

\* ---------------------------------------------- parallel sampler: helpers
\* faulty variant: a 2 x 2 x 2 block of offsets
partition_offsets_2x2x2(gs) ==
    {v \in (0 .. 1) \X (0 .. 1) \X (0 .. 1) : v[1] < gs[1] /\ v[2] < gs[2] /\ v[3] < gs[3]}

\* the 3 x 3 x 3 partition offsets that lie inside the grid
partition_offsets(gs) ==
    {v \in (0 .. 2) \X (0 .. 2) \X (0 .. 2) : v[1] < gs[1] /\ v[2] < gs[2] /\ v[3] < gs[3]}

\* (i as f64 / 3).ceil()
CeilDiv3(n) == (n + 2) \div 3

\* faulty variant: the cells of a partition are next to each other
items_one_apart(address, gs) ==
    {c \in {<<x + address[1], y + address[2], z + address[3]>> :
                x \in 0 .. gs[1], y \in 0 .. gs[2], z \in 0 .. gs[3]} :
        ~(c[1] >= gs[1] \/ c[2] >= gs[2] \/ c[3] >= gs[3])}

\* faulty variant: the cells of a partition are two apart
items_two_apart(address, gs) ==
    {c \in {<<2 * x + address[1], 2 * y + address[2], 2 * z + address[3]>> :
                x \in 0 .. gs[1], y \in 0 .. gs[2], z \in 0 .. gs[3]} :
        ~(c[1] >= gs[1] \/ c[2] >= gs[2] \/ c[3] >= gs[3])}

\* items of step(): address + 3 * (x, y, z) for x, y, z in 0 ..= divs, inside the grid
items(address, gs) ==
    {c \in {<<3 * x + address[1], 3 * y + address[2], 3 * z + address[3]>> :
                x \in 0 .. CeilDiv3(gs[1]), y \in 0 .. CeilDiv3(gs[2]), z \in 0 .. CeilDiv3(gs[3])} :
        ~(c[1] >= gs[1] \/ c[2] >= gs[2] \/ c[3] >= gs[3])}

ParallelOffsets == {-1, 0, 1}

\* ParallelPoissonDiskSampling::is_valid: `for d in -1..=1`
p_is_valid(p, g, ps, ci, gs, r2) ==
    LET i == ci[p] IN
    \A dz \in ParallelOffsets, dy \in ParallelOffsets, dx \in ParallelOffsets :
       LET c == <<i[1] + dx, i[2] + dy, i[3] + dz>> IN
       (/\ ~(dx = 0 /\ dy = 0 /\ dz = 0)
        /\ InGrid(c, gs)
        /\ g[c].representative # 0)
       => ~within_radius(ps[p], ps[g[c].representative], r2)

\* the picks written by the sequential merge: grid[index(pt)].set(pt) for every pick
merge(g, picks, ci) ==
    [c \in DOMAIN g |->
        IF \E pt \in picks : ci[pt] = c
        THEN [g[c] EXCEPT !.representative = CHOOSE pt \in picks : ci[pt] = c]
        ELSE g[c]]

\* samples(): the representatives of the grid
p_samples(g) == {g[c].representative : c \in {d \in DOMAIN g : g[d].representative # 0}}

\* ---------------------------------------------- parallel sampler: actions
\* ParallelPoissonDiskSampling::new
New ==
    /\ ppc = "new"
    /\ u_grid_size' = grid_size(inputs, radius_sq)
    /\ cell_index' = index_all(inputs, radius_sq)
    /\ IF bucketing_panics(u_grid_size', cell_index')
       THEN /\ ppc' = "panic"
            /\ UNCHANGED <<p_grid, partitions, partitions_count>>
       ELSE /\ p_grid' = bucketed(u_grid_size', cell_index')
            /\ partitions' = partition_offsets(u_grid_size')
            /\ partitions_count' = Cardinality(partitions')
            /\ ppc' = "ready"
    /\ UNCHANGED <<inputs, radius_sq, grid, indices, actives, result, spc, p_steps, p_errs,
                   lod_vars, pure_vars>>

\* is_completed()
is_completed == partitions = {}

\* max_iterations()
max_iterations == partitions_count

\* faulty variant: the partition is read but left on the queue
StepKeepingPartition ==
    /\ ppc = "ready"
    /\ \E address \in partitions :
         LET cells == items(address, u_grid_size) IN
         /\ partitions' = partitions
         /\ IF Cardinality(partitions') + 1 = partitions_count
            THEN LET seeds == {p_grid[c].candidates[1] :
                                  c \in {d \in cells : p_grid[d].candidates # <<>>}}
                 IN p_grid' = merge(p_grid, seeds, cell_index)
            ELSE LET found(c) == {q \in {p_grid[c].candidates[n] :
                                              n \in 1 .. Len(p_grid[c].candidates)} :
                                     p_is_valid(q, p_grid, inputs, cell_index,
                                                u_grid_size, radius_sq)}
                     hit == {c \in cells : found(c) # {}}
                 IN \E pick \in [hit -> 1 .. Len(inputs)] :
                       /\ \A c \in hit : pick[c] \in found(c)
                       /\ p_grid' = merge(p_grid, {pick[c] : c \in hit}, cell_index)
    /\ p_steps' = p_steps + 1
    /\ UNCHANGED <<sampler_vars, partitions_count, p_errs, ppc, lod_vars, pure_vars>>

\* step() with a partition left: the first call seeds, the later ones validate
Step ==
    /\ ppc = "ready"
    /\ \E address \in partitions :
         LET cells == items(address, u_grid_size) IN
         /\ partitions' = partitions \ {address}
         /\ IF Cardinality(partitions') + 1 = partitions_count
            THEN LET seeds == {p_grid[c].candidates[1] :
                                  c \in {d \in cells : p_grid[d].candidates # <<>>}}
                 IN p_grid' = merge(p_grid, seeds, cell_index)
            ELSE LET found(c) == {q \in {p_grid[c].candidates[n] :
                                              n \in 1 .. Len(p_grid[c].candidates)} :
                                     p_is_valid(q, p_grid, inputs, cell_index,
                                                u_grid_size, radius_sq)}
                     hit == {c \in cells : found(c) # {}}
                 IN \E pick \in [hit -> 1 .. Len(inputs)] :
                       /\ \A c \in hit : pick[c] \in found(c)
                       /\ p_grid' = merge(p_grid, {pick[c] : c \in hit}, cell_index)
    /\ p_steps' = p_steps + 1
    /\ UNCHANGED <<sampler_vars, partitions_count, p_errs, ppc, lod_vars, pure_vars>>

\* faulty variant: a step on the empty queue starts the grid afresh
StepErrClearing ==
    /\ ppc = "ready"
    /\ partitions = {}
    /\ p_errs < MaxExtraSteps
    /\ p_errs' = p_errs + 1
    /\ p_grid' = bucketed(u_grid_size, cell_index)
    /\ UNCHANGED <<sampler_vars, partitions, partitions_count, p_steps, ppc, lod_vars, pure_vars>>

\* step() on an empty partition queue: pop() is None and the call returns Err
StepErr ==
    /\ ppc = "ready"
    /\ partitions = {}
    /\ p_errs < MaxExtraSteps
    /\ p_errs' = p_errs + 1
    /\ UNCHANGED <<sampler_vars, p_grid, partitions, partitions_count, p_steps, ppc, lod_vars, pure_vars>>

\* ------------------------------------------------- bounding box, octree
\* f64::MAX; f64::MIN is its negation.  Any value above every coordinate.
F64_MAX == 1000000

\* faulty variant: the maximum is overwritten by the point instead of joined
extend_overwriting_max(b, p) ==
    [min |-> [a \in 1 .. 3 |-> Min2(b.min[a], p[a])],
     max |-> [a \in 1 .. 3 |-> p[a]]]

\* BoundingBox::extend
extend(b, p) ==
    [min |-> [a \in 1 .. 3 |-> Min2(b.min[a], p[a])],
     max |-> [a \in 1 .. 3 |-> Max2(b.max[a], p[a])]]

RECURSIVE ExtendAll(_, _)
ExtendAll(b, ps) == IF ps = <<>> THEN b ELSE ExtendAll(extend(b, Head(ps)), Tail(ps))

\* BoundingBox::from_iter: start from (MAX, MIN) and extend with every point
from_iter(ps) ==
    ExtendAll([min |-> <<F64_MAX, F64_MAX, F64_MAX>>,
               max |-> <<-F64_MAX, -F64_MAX, -F64_MAX>>], ps)

\* BoundingBox::max_size
max_size(b) == Max2(Max2(b.max[1] - b.min[1], b.max[2] - b.min[2]), b.max[3] - b.min[3])

RECURSIVE Pow2(_)
Pow2(n) == IF n = 0 THEN 1 ELSE 2 * Pow2(n - 1)

\* positions of a sequence of point indices
positions_of(ids) == [n \in 1 .. Len(ids) |-> points[ids[n]]]

NoKey == <<-1, -1, -1>>

\* PointCloudMap::root; process_lod passes no lod, the root is level 0
\* (its cell is emitted as lod 0 and registered under map.lod())
root(pts) == [lod |-> 0, map |-> (<<0, 0, 0>> :> [n \in 1 .. Len(pts) |-> n])]

\* ((x - min.x) / unit).floor() as i32 with unit = max_size / div; for
\* max_size = 0 the quotient is 0 / 0 = NaN and `NaN as i32` is 0.
key_component(d, msize, div) == IF msize = 0 THEN 0 ELSE (d * div) \div msize

child_key(p, b, div) ==
    [a \in 1 .. 3 |-> key_component(p[a] - b.min[a], max_size(b), div)]

RECURSIVE SelectKey(_, _, _, _)
SelectKey(ids, k, b, div) ==
    IF ids = <<>> THEN <<>>
    ELSE LET rest == SelectKey(Tail(ids), k, b, div) IN
         IF child_key(points[Head(ids)], b, div) = k THEN <<Head(ids)>> \o rest ELSE rest

\* the parents in one fixed order; a child key has one parent, so the
\* HashMap iteration order does not show in the child buckets
RECURSIVE SeqOfSet(_)
SeqOfSet(S) ==
    IF S = {} THEN <<>>
    ELSE LET x == CHOOSE y \in S : TRUE IN <<x>> \o SeqOfSet(S \ {x})

RECURSIVE Concat(_)
Concat(ss) == IF ss = <<>> THEN <<>> ELSE Head(ss) \o Concat(Tail(ss))

\* faulty variant: buckets of exactly threshold points are divided too
divide_at_threshold(m, b, t) ==
    LET next_lod == m.lod + 1
        div == Pow2(next_lod)
        over == {k \in DOMAIN m.map : Len(m.map[k]) >= t}
        parents == SeqOfSet(over)
        keys == {child_key(points[m.map[k][n]], b, div) : <<k, n>> \in
                    {kn \in over \X (1 .. Len(points)) : kn[2] <= Len(m.map[kn[1]])}}
    IN [lod |-> next_lod,
        map |-> [k \in keys |->
                    Concat([i \in 1 .. Len(parents) |-> SelectKey(m.map[parents[i]], k, b, div)])]]

\* PointCloudMap::divide
divide(m, b, t) ==
    LET next_lod == m.lod + 1
        div == Pow2(next_lod)
        over == {k \in DOMAIN m.map : Len(m.map[k]) > t}
        parents == SeqOfSet(over)
        keys == {child_key(points[m.map[k][n]], b, div) : <<k, n>> \in
                    {kn \in over \X (1 .. Len(points)) : kn[2] <= Len(m.map[kn[1]])}}
    IN [lod |-> next_lod,
        map |-> [k \in keys |->
                    Concat([i \in 1 .. Len(parents) |-> SelectKey(m.map[parents[i]], k, b, div)])]]

\* format!("{}-{}-{}", x, y, z)
c_key(k) == <<k[1], "-", k[2], "-", k[3]>>

\* faulty variant: the manifest is rebuilt for every level
register_level_only(coords, lod, ck, bbox) ==
    LET level == IF lod \in DOMAIN coords THEN coords[lod] ELSE <<>>
        level2 == IF ck \in DOMAIN level THEN level ELSE level @@ (ck :> bbox)
    IN (lod :> level2)

\* coordinates.entry(lod).or_default().entry(c_key).or_insert(bbox)
register(coords, lod, ck, bbox) ==
    LET level == IF lod \in DOMAIN coords THEN coords[lod] ELSE <<>>
        level2 == IF ck \in DOMAIN level THEN level ELSE level @@ (ck :> bbox)
    IN [l \in DOMAIN coords \cup {lod} |-> IF l = lod THEN level2 ELSE coords[l]]

\* calculate_sampling_radius(lod)^2 = (max_size / lod / sqrt(threshold))^2
calculate_sampling_radius_sq(b, lod, t) == <<max_size(b) * max_size(b), lod * lod * t>>

bounds == from_iter(points)

\* ------------------------------------------------- process_lod: actions
StartSampler(ids, r2) ==
    /\ inputs' = positions_of(ids)
    /\ radius_sq' = r2
    /\ spc' = "new"
    /\ UNCHANGED <<u_grid_size, cell_index, grid, indices, actives, result>>

NoCall == [kind |-> "none"]

\* callback_per_unit(bbox, pts, lod, x, y, z)
UnitCall(bbox, pts, lod, k) == [kind |-> "unit", bbox |-> bbox, pts |-> pts, lod |-> lod, key |-> k]

\* callback_per_lod(lod, bounds, coordinates)
LodCall(lod, coords) == [kind |-> "lod", lod |-> lod, coordinates |-> coords]

\* the record kept of the per-unit invocations of a cell
record_unit(em, c) ==
    LET cell == <<c.lod, c.key>> IN
    IF cell \in DOMAIN em
    THEN [em EXCEPT ![cell] = [count |-> @.count + 1, pts |-> c.pts, bbox |-> c.bbox]]
    ELSE em @@ (cell :> [count |-> 1, pts |-> c.pts, bbox |-> c.bbox])

Returned(ok) == IF ok THEN "ok" ELSE "err"

\* callback_per_unit(...).await returns Ok (ok) or Err
InvokeUnit(c, ok) ==
    /\ emitted' = record_unit(emitted, c)
    /\ last_call' = c
    /\ call_result' = Returned(ok)
    /\ UNCHANGED lod_calls

\* callback_per_lod(...).await returns Ok (ok) or Err
InvokeLod(c, ok) ==
    /\ lod_calls' = Append(lod_calls, c)
    /\ last_call' = c
    /\ call_result' = Returned(ok)
    /\ UNCHANGED emitted

\* lines 197-212: root map, manifest entry of the root, root points
Root ==
    /\ lpc = "root"
    /\ parent_map' = root(points)
    /\ coordinates' = register(coordinates, 0, c_key(<<0, 0, 0>>), bounds)
    /\ LET unit == parent_map'.map[<<0, 0, 0>>]
           under_threshold == Len(unit) < threshold
       IN IF under_threshold
          THEN /\ samples' = (<<0, 0, 0>> :> unit)
               /\ lpc' = "root_unit"
               /\ UNCHANGED sampler_vars
          ELSE /\ StartSampler(unit, calculate_sampling_radius_sq(bounds, 1, threshold))
               /\ lpc' = "root_sample"
               /\ UNCHANGED samples
    /\ UNCHANGED <<points, threshold, next_map, has_over_threshold, to_sample, sampling,
                   emit_left, emitted, lod_calls, last_call, call_result, parallel_vars, pure_vars>>

\* line 211: sampler.sample on the root bucket has returned (or panicked)
RootSampled ==
    /\ lpc = "root_sample"
    /\ spc \in {"done", "panic"}
    /\ IF spc = "panic"
       THEN /\ lpc' = "panic"
            /\ UNCHANGED samples
       ELSE /\ samples' = (<<0, 0, 0>> :> [n \in 1 .. Len(result) |->
                                             parent_map.map[<<0, 0, 0>>][result[n]]])
            /\ lpc' = "root_unit"
    /\ spc' = "idle"
    /\ UNCHANGED <<inputs, radius_sq, u_grid_size, cell_index, grid, indices, actives, result>>
    /\ UNCHANGED <<points, threshold, parent_map, next_map, has_over_threshold, to_sample,
                   sampling, emit_left, coordinates, emitted, lod_calls, last_call, call_result,
                   parallel_vars, pure_vars>>

\* line 213: callback_per_unit(map.bounds(), pts, 0, 0, 0, 0).await?
RootUnit ==
    /\ lpc = "root_unit"
    /\ \E ok \in BOOLEAN :
         /\ InvokeUnit(UnitCall(bounds, samples[<<0, 0, 0>>], 0, <<0, 0, 0>>), ok)
         /\ lpc' = IF ok THEN "root_lod" ELSE "failed"
    /\ UNCHANGED <<points, threshold, parent_map, next_map, has_over_threshold, to_sample,
                   sampling, samples, emit_left, coordinates, sampler_vars, parallel_vars, pure_vars>>

\* line 215: callback_per_lod(map.lod() + 1, bounds, coordinates).await?
RootLod ==
    /\ lpc = "root_lod"
    /\ \E ok \in BOOLEAN :
         /\ InvokeLod(LodCall(parent_map.lod + 1, coordinates), ok)
         /\ lpc' = IF ok THEN "divide" ELSE "failed"
    /\ UNCHANGED <<points, threshold, parent_map, next_map, has_over_threshold, to_sample,
                   sampling, samples, emit_left, coordinates, sampler_vars, parallel_vars, pure_vars>>

\* lines 220-227 and, when nothing is over the threshold, 229-241.
\* 2_u32.pow(next.lod()) fits u32 up to level 31, far above MaxLod.
Divide ==
    /\ lpc = "divide"
    /\ parent_map.lod + 1 <= MaxLod
    /\ next_map' = divide(parent_map, bounds, threshold)
    /\ has_over_threshold' = \E k \in DOMAIN next_map'.map : Len(next_map'.map[k]) >= threshold
    /\ IF has_over_threshold'
       THEN /\ to_sample' = DOMAIN next_map'.map
            /\ samples' = <<>>
            /\ lpc' = "sample"
       ELSE /\ to_sample' = {}
            /\ samples' = next_map'.map
            /\ lpc' = "emit"
    /\ emit_left' = IF has_over_threshold' THEN {} ELSE DOMAIN next_map'.map
    /\ UNCHANGED <<points, threshold, parent_map, sampling, coordinates, emitted, lod_calls,
                   last_call, call_result, sampler_vars, parallel_vars, pure_vars>>

\* line 236: sampler.sample(u.points(), sampling_radius) is entered for one bucket
SampleBucket ==
    /\ lpc = "sample"
    /\ sampling = NoKey
    /\ to_sample # {}
    /\ LET k == CHOOSE k \in to_sample : TRUE
           lod == Pow2(next_map.lod)
       IN /\ sampling' = k
          /\ to_sample' = to_sample \ {k}
          /\ StartSampler(next_map.map[k], calculate_sampling_radius_sq(bounds, lod, threshold))
    /\ UNCHANGED <<points, threshold, parent_map, next_map, has_over_threshold, samples,
                   emit_left, coordinates, emitted, lod_calls, last_call, call_result, lpc, parallel_vars, pure_vars>>

\* line 236-239: the call has returned (or panicked)
BucketSampled ==
    /\ lpc = "sample"
    /\ sampling # NoKey
    /\ spc \in {"done", "panic"}
    /\ IF spc = "panic"
       THEN /\ lpc' = "panic"
            /\ UNCHANGED samples
       ELSE /\ samples' = samples @@ (sampling :> [n \in 1 .. Len(result) |->
                                                    next_map.map[sampling][result[n]]])
            /\ UNCHANGED lpc
    /\ sampling' = NoKey
    /\ spc' = "idle"
    /\ UNCHANGED <<inputs, radius_sq, u_grid_size, cell_index, grid, indices, actives, result>>
    /\ UNCHANGED <<points, threshold, parent_map, next_map, has_over_threshold, to_sample,
                   emit_left, coordinates, emitted, lod_calls, last_call, call_result, parallel_vars, pure_vars>>

\* line 241: every bucket is sampled, collect() returns
Sampled ==
    /\ lpc = "sample"
    /\ sampling = NoKey
    /\ to_sample = {}
    /\ emit_left' = DOMAIN samples
    /\ lpc' = "emit"
    /\ UNCHANGED <<points, threshold, parent_map, next_map, has_over_threshold, to_sample,
                   sampling, samples, coordinates, emitted, lod_calls, last_call, call_result,
                   sampler_vars, parallel_vars, pure_vars>>

\* faulty variant: the emission loop goes on after a callback error
EmitIgnoringError ==
    /\ lpc = "emit"
    /\ \E k \in emit_left, ok \in BOOLEAN :
         LET pts == samples[k]
             bbox == from_iter(positions_of(pts))
         IN /\ coordinates' = register(coordinates, next_map.lod, c_key(k), bbox)
            /\ InvokeUnit(UnitCall(bbox, pts, next_map.lod, k), ok)
            /\ emit_left' = emit_left \ {k}
            /\ lpc' = "emit"
    /\ UNCHANGED <<points, threshold, parent_map, next_map, has_over_threshold, to_sample,
                   sampling, samples, sampler_vars, parallel_vars, pure_vars>>

\* lines 243-253: one iteration of the emission loop
Emit ==
    /\ lpc = "emit"
    /\ \E k \in emit_left, ok \in BOOLEAN :
         LET pts == samples[k]
             bbox == from_iter(positions_of(pts))
         IN /\ coordinates' = register(coordinates, next_map.lod, c_key(k), bbox)
            /\ InvokeUnit(UnitCall(bbox, pts, next_map.lod, k), ok)
            /\ emit_left' = emit_left \ {k}
            /\ lpc' = IF ok THEN "emit" ELSE "failed"
    /\ UNCHANGED <<points, threshold, parent_map, next_map, has_over_threshold, to_sample,
                   sampling, samples, sampler_vars, parallel_vars, pure_vars>>

\* faulty variant: the per-level callback does not wait for the emission loop
LevelBeforeEmission ==
    /\ lpc = "emit"
    /\ \E ok \in BOOLEAN :
         /\ InvokeLod(LodCall(next_map.lod + 1, coordinates), ok)
         /\ IF ~ok THEN lpc' = "failed" /\ UNCHANGED parent_map
            ELSE IF ~has_over_threshold THEN lpc' = "done" /\ UNCHANGED parent_map
            ELSE lpc' = "divide" /\ parent_map' = next_map
    /\ UNCHANGED <<points, threshold, next_map, has_over_threshold, to_sample,
                   sampling, samples, emit_left, coordinates, sampler_vars, parallel_vars, pure_vars>>

\* lines 254-262: the per-level callback, then break or the next iteration
Level ==
    /\ lpc = "emit"
    /\ emit_left = {}
    /\ \E ok \in BOOLEAN :
         /\ InvokeLod(LodCall(next_map.lod + 1, coordinates), ok)
         /\ IF ~ok THEN lpc' = "failed" /\ UNCHANGED parent_map
            ELSE IF ~has_over_threshold THEN lpc' = "done" /\ UNCHANGED parent_map
            ELSE lpc' = "divide" /\ parent_map' = next_map
    /\ UNCHANGED <<points, threshold, next_map, has_over_threshold, to_sample,
                   sampling, samples, emit_left, coordinates, sampler_vars, parallel_vars, pure_vars>>

vars == <<sampler_vars, parallel_vars, lod_vars, pure_vars>>

\* ------------------------------------------- specification: serial sampler
SeqsUpTo(S, n) == UNION {[1 .. k -> S] : k \in 0 .. n}

SamplerIdle ==
    /\ u_grid_size = <<1, 1, 1>>
    /\ cell_index = <<>>
    /\ grid = <<>>
    /\ indices = {}
    /\ actives = <<>>
    /\ result = <<>>

PureIdle ==
    /\ arg = NoValue
    /\ ret = NoValue
    /\ fpc = "idle"

ParallelIdle ==
    /\ p_grid = <<>>
    /\ partitions = {}
    /\ partitions_count = 0
    /\ p_steps = 0
    /\ p_errs = 0

LodIdle ==
    /\ points = <<>>
    /\ threshold = 1
    /\ parent_map = <<>>
    /\ next_map = <<>>
    /\ has_over_threshold = FALSE
    /\ to_sample = {}
    /\ sampling = NoKey
    /\ samples = <<>>
    /\ emit_left = {}
    /\ coordinates = <<>>
    /\ emitted = <<>>
    /\ lod_calls = <<>>
    /\ last_call = NoCall
    /\ call_result = "none"

\* no sampler and no pipeline is running
ProgramIdle ==
    /\ inputs = <<>>
    /\ radius_sq = <<1, 1>>
    /\ SamplerIdle
    /\ spc = "idle"
    /\ ParallelIdle
    /\ ppc = "idle"
    /\ LodIdle
    /\ lpc = "idle"

InitSerial ==
    /\ inputs \in SeqsUpTo(Positions, MaxPts)
    /\ radius_sq \in {<<n, 4>> : n \in 1 .. MaxRadiusSq}
    /\ SamplerIdle
    /\ spc = "new"
    /\ ParallelIdle
    /\ ppc = "idle"
    /\ LodIdle
    /\ lpc = "idle"
    /\ PureIdle

NextSerial == Bucket \/ Start \/ LoopFresh \/ LoopFrontier \/ Collect

SpecSerial == InitSerial /\ [][NextSerial]_vars

\* ----------------------------------------- specification: parallel sampler
InitParallel ==
    /\ inputs \in SeqsUpTo(ParPositions, ParMaxPts)
    /\ radius_sq \in {<<n, 4>> : n \in 1 .. MaxRadiusSq}
    /\ SamplerIdle
    /\ spc = "idle"
    /\ ParallelIdle
    /\ ppc = "new"
    /\ LodIdle
    /\ lpc = "idle"
    /\ PureIdle

NextParallel == New \/ Step \/ StepErr

SpecParallel == InitParallel /\ [][NextParallel]_vars

\* ------------------------------------------ specification: both samplers
\* a run of the serial sampler or a run of the parallel sampler
InitSamplers == InitSerial \/ InitParallel

NextSamplers == NextSerial \/ NextParallel

SpecSamplers == InitSamplers /\ [][NextSamplers]_vars

\* ------------------------------------------------ specification: pipeline
\* process_lod from the point where the points are read (line 179)
InitLod ==
    /\ points \in SeqsUpTo(LodPositions, LodMaxPts)
    /\ threshold \in {Pow2(e) : e \in 0 .. MaxThresholdExp}
    /\ parent_map = <<>>
    /\ next_map = <<>>
    /\ has_over_threshold = FALSE
    /\ to_sample = {}
    /\ sampling = NoKey
    /\ samples = <<>>
    /\ emit_left = {}
    /\ coordinates = <<>>
    /\ emitted = <<>>
    /\ lod_calls = <<>>
    /\ last_call = NoCall
    /\ call_result = "none"
    /\ lpc = "root"
    /\ inputs = <<>>
    /\ radius_sq = <<1, 1>>
    /\ SamplerIdle
    /\ spc = "idle"
    /\ ParallelIdle
    /\ ppc = "idle"
    /\ PureIdle

NextLod ==
    \/ Root \/ RootSampled \/ RootUnit \/ RootLod
    \/ Divide \/ SampleBucket \/ BucketSampled \/ Sampled \/ Emit \/ Level
    \/ Bucket \/ Start \/ LoopFresh \/ LoopFrontier \/ Collect

SpecLod == InitLod /\ [][NextLod]_vars

\* process_lod is one sequential task: it takes its next step whenever it has one
FairSpecLod == SpecLod /\ WF_vars(NextLod)

\* -------------------------------------------------------- Point::try_parse
\* the tokens of a line: "7" parses as f64 and as u8, "300" as f64 only, "abc"
\* as neither
Tokens == {"7", "300", "abc"}

ParseErr == [ok |-> FALSE]

parse_f64(t) ==
    CASE t = "7" -> [ok |-> TRUE, v |-> 7]
      [] t = "300" -> [ok |-> TRUE, v |-> 300]
      [] OTHER -> ParseErr

parse_u8(t) ==
    CASE t = "7" -> [ok |-> TRUE, v |-> 7]
      [] OTHER -> ParseErr

\* Option<T>
None == [some |-> FALSE]

Some(v) == [some |-> TRUE, v |-> v]

\* split.next(), called for the n-th time
split_next(line, n) == IF n <= Len(line) THEN Some(line[n]) ELSE None

\* Color::new(r, g, b)
Color_new(red, green, blue) == [red |-> red, green |-> green, blue |-> blue]

\* the inner match on (r, g, b, intensity); each parse()? returns the error
color_intensity(r, g, b, intensity) ==
    IF r.some /\ g.some /\ b.some /\ intensity.some
    THEN IF /\ parse_u8(r.v).ok /\ parse_u8(g.v).ok /\ parse_u8(b.v).ok
            /\ parse_f64(intensity.v).ok
         THEN [ok |-> TRUE,
               color |-> Some(Color_new(parse_u8(r.v).v, parse_u8(g.v).v, parse_u8(b.v).v)),
               intensity |-> Some(parse_f64(intensity.v).v)]
         ELSE ParseErr
    ELSE IF r.some /\ g.some /\ b.some
    THEN IF parse_u8(r.v).ok /\ parse_u8(g.v).ok /\ parse_u8(b.v).ok
         THEN [ok |-> TRUE,
               color |-> Some(Color_new(parse_u8(r.v).v, parse_u8(g.v).v, parse_u8(b.v).v)),
               intensity |-> None]
         ELSE ParseErr
    ELSE IF r.some
    THEN IF parse_f64(r.v).ok
         THEN [ok |-> TRUE, color |-> None, intensity |-> Some(parse_f64(r.v).v)]
         ELSE ParseErr
    ELSE [ok |-> TRUE, color |-> None, intensity |-> None]

try_parse(line) ==
    LET x == split_next(line, 1)
        y == split_next(line, 2)
        z == split_next(line, 3)
        r == split_next(line, 4)
        g == split_next(line, 5)
        b == split_next(line, 6)
        intensity == split_next(line, 7)
    IN  IF x.some /\ y.some /\ z.some
        THEN IF parse_f64(x.v).ok /\ parse_f64(y.v).ok /\ parse_f64(z.v).ok
             THEN LET ci == color_intensity(r, g, b, intensity) IN
                  IF ci.ok
                  THEN [ok |-> TRUE,
                        position |-> <<parse_f64(x.v).v, parse_f64(y.v).v, parse_f64(z.v).v>>,
                        color |-> ci.color,
                        intensity |-> ci.intensity]
                  ELSE ParseErr
             ELSE ParseErr
        ELSE ParseErr

TryParse ==
    /\ fpc = "call"
    /\ ret' = try_parse(arg)
    /\ fpc' = "returned"
    /\ UNCHANGED <<arg, sampler_vars, parallel_vars, lod_vars>>

InitParse ==
    /\ ProgramIdle
    /\ arg \in SeqsUpTo(Tokens, MaxTokens)
    /\ ret = NoValue
    /\ fpc = "call"

NextParse == TryParse

SpecParse == InitParse /\ [][NextParse]_vars

\* --------------------------------------- BoundingBox: from_iter and extend
BoxPositions == (0 .. BoxMaxX) \X (0 .. 1) \X {0}

\* the orders in which an iterator can yield the points of s
Orders(s) ==
    LET n == Len(s)
        bij == {f \in [1 .. n -> 1 .. n] : \A i, j \in 1 .. n : i # j => f[i] # f[j]}
    IN  {[i \in 1 .. n |-> s[f[i]]] : f \in bij}

\* two boxes are collected: one from xs, one from xs with p added, in any order
FromIter ==
    /\ fpc = "call"
    /\ ret' = [box |-> from_iter(arg.xs), whole |-> from_iter(arg.ys)]
    /\ fpc' = "built"
    /\ UNCHANGED <<arg, sampler_vars, parallel_vars, lod_vars>>

\* the first box is extended by p
Extend ==
    /\ fpc = "built"
    /\ ret' = [ret EXCEPT !.box = extend(ret.box, arg.p)]
    /\ fpc' = "returned"
    /\ UNCHANGED <<arg, sampler_vars, parallel_vars, lod_vars>>

InitBox ==
    /\ ProgramIdle
    /\ arg \in {[xs |-> xs, p |-> q, ys |-> ys] :
                   xs \in SeqsUpTo(BoxPositions, BoxMaxPts) \ {<<>>},
                   q \in BoxPositions,
                   ys \in SeqsUpTo(BoxPositions, BoxMaxPts + 1)}
    /\ arg.ys \in Orders(Append(arg.xs, arg.p))
    /\ ret = NoValue
    /\ fpc = "call"

NextBox == FromIter \/ Extend

SpecBox == InitBox /\ [][NextBox]_vars

\* ------------------------------------------- Encoder: the image of n points
\* faulty variant: the square root is rounded down
image_side_floor(n) == CHOOSE k \in 0 .. n : k * k <= n /\ (k + 1) * (k + 1) > n

\* (n as f64).sqrt().ceil() as u32
image_side(n) == CHOOSE k \in 0 .. n : k * k >= n /\ (k = 0 \/ (k - 1) * (k - 1) < n)

\* the pixel of the idx-th point: x = idx % side, y = idx / side
pixel(idx, side) == <<idx % side, idx \div side>>

\* RgbaImage::new(side, side): no pixel holds a point yet
EncodeNew ==
    /\ fpc = "call"
    /\ ret' = [side |-> image_side(arg.n), image |-> <<>>, idx |-> 0]
    /\ fpc' = "put"
    /\ UNCHANGED <<arg, sampler_vars, parallel_vars, lod_vars>>

\* one turn of for_each: put_pixel panics outside the image, and otherwise
\* overwrites what the pixel held
PutPixel ==
    /\ fpc = "put"
    /\ ret.idx < arg.n
    /\ LET px == pixel(ret.idx, ret.side) IN
       IF px[1] < ret.side /\ px[2] < ret.side
       THEN /\ ret' = [ret EXCEPT
                          !.image = [q \in DOMAIN ret.image \cup {px} |->
                                        IF q = px THEN ret.idx ELSE ret.image[q]],
                          !.idx = ret.idx + 1]
            /\ fpc' = "put"
       ELSE /\ fpc' = "panic"
            /\ UNCHANGED ret
    /\ UNCHANGED <<arg, sampler_vars, parallel_vars, lod_vars>>

EncodeReturn ==
    /\ fpc = "put"
    /\ ret.idx = arg.n
    /\ fpc' = "returned"
    /\ UNCHANGED <<arg, ret, sampler_vars, parallel_vars, lod_vars>>

InitImage ==
    /\ ProgramIdle
    /\ arg \in {[n |-> n] : n \in 0 .. MaxImagePts}
    /\ ret = NoValue
    /\ fpc = "call"

NextImage == EncodeNew \/ PutPixel \/ EncodeReturn

SpecImage == InitImage /\ [][NextImage]_vars

\* --------------------------------------------- Encoder: encode_8bit_4channels
\* Numbers are sequences of bits, least significant first.  v01 is an f64 in
\* [0, 1]: a multiple of 2^-FracBits whose significant bits span at most
\* F64Mantissa places.
FracBits == 65
F64Mantissa == 53
U32Bits == 32

Bit(s, i) == IF i \in 1 .. Len(s) THEN s[i] ELSE 0

ShiftLeft(s, k) == [i \in 1 .. Len(s) + k |-> IF i <= k THEN 0 ELSE s[i - k]]

ShiftRight(s, k) == [i \in 1 .. Max2(Len(s) - k, 0) |-> s[i + k]]

\* x - y for x >= y: place i borrows when, at the highest place below it
\* where x and y differ, x has the 0
Minus(x, y) ==
    LET borrow(i) ==
            IF \E j \in 1 .. i :
                  /\ Bit(x, j) < Bit(y, j)
                  /\ \A k \in j + 1 .. i : Bit(x, k) = Bit(y, k)
            THEN 1 ELSE 0
    IN  [i \in 1 .. Len(x) |-> (Bit(x, i) - Bit(y, i) - borrow(i - 1) + 2) % 2]

\* x + 2^k: the carry reaches a place when every place from k up to it holds 1
PlusBit(x, k) ==
    LET carry(i) == IF i > k /\ \A j \in k + 1 .. i : Bit(x, j) = 1 THEN 1 ELSE 0
    IN  [i \in 1 .. Max2(Len(x), k + 1) + 1 |->
            IF i <= k THEN Bit(x, i)
            ELSE IF i = k + 1 THEN 1 - Bit(x, i)
            ELSE (Bit(x, i) + carry(i - 1)) % 2]

\* the place of the most significant 1, 0 for zero
Msb(x) ==
    LET ones == {i \in 1 .. Len(x) : x[i] = 1} IN
    IF ones = {} THEN 0 ELSE CHOOSE i \in ones : \A j \in ones : j <= i

\* an exact value rounded to an f64: nearest, ties to even
round_f64(x) ==
    LET drop == Msb(x) - F64Mantissa IN
    IF drop <= 0 THEN x
    ELSE LET kept == [i \in 1 .. Len(x) |-> IF i <= drop THEN 0 ELSE x[i]]
             half == x[drop] = 1
             sticky == \E i \in 1 .. drop - 1 : x[i] = 1
             odd == x[drop + 1] = 1
         IN  IF half /\ (sticky \/ odd) THEN PlusBit(kept, drop) ELSE kept

\* u32::MAX as f64, in units of 1
U32_MAX_times(x) == Minus(ShiftLeft(x, U32Bits), x)

\* (iu >> shift) & 0xff
octet(iu, shift) ==
    Bit(iu, shift + 1) + 2 * Bit(iu, shift + 2) + 4 * Bit(iu, shift + 3)
    + 8 * Bit(iu, shift + 4) + 16 * Bit(iu, shift + 5) + 32 * Bit(iu, shift + 6)
    + 64 * Bit(iu, shift + 7) + 128 * Bit(iu, shift + 8)

\* .floor() as u32: the float is at most u32::MAX here, so the cast keeps it
floor_as_u32(x) == [i \in 1 .. U32Bits |-> Bit(ShiftRight(x, FracBits), i)]

encode_8bit_4channels(v01) ==
    LET iu == floor_as_u32(round_f64(U32_MAX_times(v01))) IN
    <<octet(iu, 0), octet(iu, 8), octet(iu, 16), octet(iu, 24)>>

Encode4 ==
    /\ fpc = "call"
    /\ ret' = encode_8bit_4channels(arg.v01)
    /\ fpc' = "returned"
    /\ UNCHANGED <<arg, sampler_vars, parallel_vars, lod_vars>>

\* the bits of an octet value, and of a sequence of octets, low octet first
OctetBits(o) == [i \in 1 .. 8 |-> (o \div Pow2(i - 1)) % 2]

\* v01 = 1, or v01 = a / 2^32 + low / 2^FracBits for a 32-bit a given by its
\* octets; only the values an f64 can hold
OctetSamples == (0 .. MaxOctet) \cup {255}

FromParts(a, low) ==
    [i \in 1 .. FracBits + 1 |->
        IF i <= FracBits - U32Bits
        THEN Bit(OctetBits(low), i)
        ELSE IF i <= FracBits
        THEN OctetBits(a[((i - (FracBits - U32Bits) - 1) \div 8) + 1])[((i - (FracBits - U32Bits) - 1) % 8) + 1]
        ELSE 0]

One == [i \in 1 .. FracBits + 1 |-> IF i = FracBits + 1 THEN 1 ELSE 0]

Lsb(x) ==
    LET ones == {i \in 1 .. Len(x) : x[i] = 1} IN
    IF ones = {} THEN 0 ELSE CHOOSE i \in ones : \A j \in ones : i <= j

is_f64(x) == Msb(x) - Lsb(x) < F64Mantissa

InitEncode4 ==
    /\ ProgramIdle
    /\ arg \in {[v01 |-> One]} \cup
               {[v01 |-> FromParts(a, low)] :
                   a \in [1 .. 4 -> OctetSamples], low \in 0 .. MaxLow}
    /\ is_f64(arg.v01)
    /\ ret = NoValue
    /\ fpc = "call"

NextEncode4 == Encode4

SpecEncode4 == InitEncode4 /\ [][NextEncode4]_vars

\* ------------------------------------- specification: the sampler scenarios
\* three points 0.5 apart on a line and radius 0.75, in units of 0.5
S2_inputs == <<<<0, 0, 0>>, <<1, 0, 0>>, <<2, 0, 0>>>>
S2_radius_sq == <<9, 4>>

\* the corners of the unit cube and radius sqrt(3) - 10^-6, whose square is
\* 2.9999965 to seven places
S3_inputs ==
    <<<<0, 0, 0>>, <<1, 0, 0>>, <<0, 1, 0>>, <<1, 1, 0>>,
      <<0, 0, 1>>, <<1, 0, 1>>, <<0, 1, 1>>, <<1, 1, 1>>>>
S3_radius_sq == <<29999965, 10000000>>

InitScenario ==
    /\ inputs \in {S2_inputs, S3_inputs}
    /\ radius_sq = IF inputs = S2_inputs THEN S2_radius_sq ELSE S3_radius_sq
    /\ SamplerIdle
    /\ spc = "new"
    /\ ParallelIdle
    /\ ppc = "idle"
    /\ LodIdle
    /\ lpc = "idle"
    /\ PureIdle

SpecScenario == InitScenario /\ [][NextSerial]_vars

\* ------------------------------- parallel sampler: the partitions of a grid
\* new() builds the offsets of a grid of grid_count cells; each step() pops one
\* and builds its items
Partition ==
    /\ fpc = "call"
    /\ ret' = [a \in partition_offsets(arg.grid_count) |-> items(a, arg.grid_count)]
    /\ fpc' = "returned"
    /\ UNCHANGED <<arg, sampler_vars, parallel_vars, lod_vars>>

InitPartition ==
    /\ ProgramIdle
    /\ arg \in {[grid_count |-> gs] : gs \in (1 .. MaxGridCount) \X (1 .. MaxGridCount) \X (1 .. MaxGridCount)}
    /\ ret = NoValue
    /\ fpc = "call"

NextPartition == Partition

SpecPartition == InitPartition /\ [][NextPartition]_vars

\* ------------------------------------------------ serial sampler: claims
\* squared distance between two inputs, as the contract measures it
Dist2(i, j) ==
    (inputs[i][1] - inputs[j][1]) * (inputs[i][1] - inputs[j][1])
    + (inputs[i][2] - inputs[j][2]) * (inputs[i][2] - inputs[j][2])
    + (inputs[i][3] - inputs[j][3]) * (inputs[i][3] - inputs[j][3])

\* ||p_i - p_j|| > radius
FartherThanRadius(i, j) == Dist2(i, j) * radius_sq[2] > radius_sq[1]

\* ||p_i - p_j|| > radius * (1 - 1e-9); the squared distances and radius^2 are
\* multiples of 1/4 below 100, so this is ||p_i - p_j||^2 >= radius^2
Separated(i, j) == Dist2(i, j) * radius_sq[2] >= radius_sq[1]

Retained == {result[n] : n \in 1 .. Len(result)}

\* C1: any two distinct points returned by the serial sampler are farther
\* than radius apart (up to the slack 1e-9), whatever cell is picked first and
\* whatever find_any returns.
C1_SerialSeparation ==
    spc = "done" =>
        \A i \in Retained, j \in Retained : i # j => Separated(i, j)

\* C2: after exactly max_iterations() calls of step, any two distinct points
\* returned by samples() are farther than radius apart (up to the slack 1e-9),
\* for every pop order.
C2_ParallelSeparation ==
    (ppc = "ready" /\ p_steps = partitions_count) =>
        \A i \in p_samples(p_grid), j \in p_samples(p_grid) : i # j => Separated(i, j)

\* C3: when the traversal has terminated every input point lies within
\* radius of at least one retained point.
C3_SerialMaximal ==
    spc = "done" =>
        \A i \in 1 .. Len(inputs) : \E j \in Retained : ~FartherThanRadius(i, j)

\* a terminated run that dropped an input lying apart from every retained point
C3_Witness ==
    /\ spc = "done"
    /\ \E i \in 1 .. Len(inputs) :
          /\ i \notin Retained
          /\ \A j \in Retained : inputs[i] # inputs[j]

\* C4: sample on an empty slice returns an empty Vec and does not panic.
C4_EmptyInputReturnsEmpty ==
    (inputs = <<>> /\ spc \notin {"idle", "new"}) => (spc # "panic" /\ result = <<>>)

\* ------------------------------------------------------ pipeline: claims
\* the child level is built: `next` is divide() of the map still held in parent_map
Divided == lpc \in {"sample", "emit"}

Clamp(v, lo, hi) == IF v < lo THEN lo ELSE IF v > hi THEN hi ELSE v

\* floor((p - min) / unit) with unit = max_extent / div, componentwise
FloorKey(p, div) ==
    LET b == from_iter(points)
        m == max_size(b)
    IN [a \in 1 .. 3 |-> IF m = 0 THEN 0 ELSE ((p[a] - b.min[a]) * div) \div m]

\* C5: the keys of a child level L+1 lie in 0 .. 2^(L+1) - 1 on every axis,
\* and every point of a child bucket k has k = floor((p - min) / unit) clamped
\* to [0, div - 1]; a point on the max face is in the last cell.
C5_ChildKeysInRange ==
    Divided =>
        LET div == Pow2(next_map.lod) IN
        \A k \in DOMAIN next_map.map :
            /\ \A a \in 1 .. 3 : 0 <= k[a] /\ k[a] <= div - 1
            /\ \A n \in 1 .. Len(next_map.map[k]) :
                  LET f == FloorKey(points[next_map.map[k][n]], div) IN
                  k = [a \in 1 .. 3 |-> Clamp(f[a], 0, div - 1)]

\* number of places a point index holds in the buckets of a map
Occurrences(m, id) ==
    Cardinality({kn \in (DOMAIN m) \X (1 .. Len(points)) :
                    kn[2] <= Len(m[kn[1]]) /\ m[kn[1]][kn[2]] = id})

BucketIds(b) == {b[n] : n \in 1 .. Len(b)}

\* C6: divide(threshold) re-buckets exactly the points of the parent buckets
\* larger than threshold: each of them is in exactly one child bucket, the
\* points of the other parent buckets are in none, no child bucket is empty.
C6_DivideRebucketsOverThreshold ==
    Divided =>
        /\ \A k \in DOMAIN parent_map.map :
              \A id \in BucketIds(parent_map.map[k]) :
                 Occurrences(next_map.map, id) =
                    IF Len(parent_map.map[k]) > threshold THEN 1 ELSE 0
        /\ \A id \in 1 .. Len(points) :
              Occurrences(next_map.map, id) > 0 =>
                 \E k \in DOMAIN parent_map.map : id \in BucketIds(parent_map.map[k])
        /\ \A k \in DOMAIN next_map.map : next_map.map[k] # <<>>

\* a division whose parent level has a bucket over and a non-empty bucket
\* at or under the threshold
C6_Witness ==
    /\ Divided
    /\ \E k \in DOMAIN parent_map.map : Len(parent_map.map[k]) > threshold
    /\ \E k \in DOMAIN parent_map.map :
          Len(parent_map.map[k]) <= threshold /\ parent_map.map[k] # <<>>
    /\ Cardinality(DOMAIN next_map.map) >= 2

AllAtMostThreshold(m) == \A k \in DOMAIN m.map : Len(m.map[k]) <= threshold

\* C7: if every child bucket of the new level has at most threshold points,
\* every child bucket is emitted unchanged and the loop stops after that
\* level; otherwise every child bucket is sampled before it is emitted.
C7_UnderThresholdEmittedUnchanged ==
    /\ (lpc = "emit" /\ AllAtMostThreshold(next_map)) =>
          (samples = next_map.map /\ ~has_over_threshold)
    /\ (lpc = "emit" /\ ~AllAtMostThreshold(next_map)) => has_over_threshold
    /\ (lpc = "divide" /\ parent_map.lod >= 1) => ~AllAtMostThreshold(parent_map)

\* a bucket of more than threshold points, all at one position: divide keys a
\* point by its position alone, so every later level holds this bucket again
CoincidentOverBudget(m) ==
    \E k \in DOMAIN m.map :
        /\ Len(m.map[k]) > threshold
        /\ \A id \in BucketIds(m.map[k]) : points[id] = points[m.map[k][1]]

\* C8: for every finite input, inputs with more than threshold coincident
\* points included, the pipeline loop eventually terminates: a level is
\* reached at which no cell exceeds the budget.  Hence no level holds a
\* cell over the budget that no division can ever split.
C8_LoopTerminates ==
    /\ <>(lpc \in {"done", "failed", "panic"})
    /\ [](Divided => ~CoincidentOverBudget(next_map))

\* the loop is about to divide, for the fourth time or later, a level that
\* still holds a bucket of more than threshold coincident points
C8_Witness ==
    /\ lpc = "divide"
    /\ parent_map.lod >= 3
    /\ CoincidentOverBudget(parent_map)

\* every entry of manifest c is an entry of manifest d
SubManifest(c, d) ==
    \A l \in DOMAIN c :
        /\ l \in DOMAIN d
        /\ \A ck \in DOMAIN c[l] : ck \in DOMAIN d[l] /\ d[l][ck] = c[l][ck]

\* C9: the snapshot passed to a per-level callback contains every entry of
\* every earlier snapshot and an entry for every cell emitted at its level.
C9_ManifestGrowsMonotonically ==
    /\ \A j \in 1 .. Len(lod_calls) : \A i \in 1 .. j - 1 :
          SubManifest(lod_calls[i].coordinates, lod_calls[j].coordinates)
    /\ last_call.kind = "lod" =>
          \A cell \in DOMAIN emitted :
             cell[1] + 1 = last_call.lod =>
                /\ cell[1] \in DOMAIN last_call.coordinates
                /\ c_key(cell[2]) \in DOMAIN last_call.coordinates[cell[1]]
                /\ last_call.coordinates[cell[1]][c_key(cell[2])] = emitted[cell].bbox

\* a third per-level callback whose snapshot has two cells at the level just emitted
C9_Witness ==
    /\ last_call.kind = "lod"
    /\ Len(lod_calls) >= 3
    /\ Cardinality({cell \in DOMAIN emitted : cell[1] + 1 = last_call.lod}) >= 2

\* C10: the per-unit callback runs exactly once per emitted cell, the
\* per-level callback of a level runs after the per-unit callbacks of all
\* its cells, and the levels are processed in increasing order: a callback
\* of level L runs when exactly the per-level callbacks of the levels below
\* L have run (for the per-level callback of L: those and its own).
C10_CallbackOrdering ==
    /\ \A cell \in DOMAIN emitted : emitted[cell].count = 1
    /\ (last_call.kind = "lod" /\ last_call.lod = 1) => <<0, <<0, 0, 0>>>> \in DOMAIN emitted
    /\ (last_call.kind = "lod" /\ last_call.lod >= 2 /\ next_map.lod + 1 = last_call.lod) =>
          \A k \in DOMAIN next_map.map : <<next_map.lod, k>> \in DOMAIN emitted
    /\ last_call.kind = "unit" => last_call.lod = Len(lod_calls)
    /\ \A j \in 1 .. Len(lod_calls) : lod_calls[j].lod = j

\* a finished run of three levels, one of them with two cells
C10_Witness ==
    /\ lpc = "done"
    /\ Len(lod_calls) >= 3
    /\ \E c \in DOMAIN emitted, d \in DOMAIN emitted : c # d /\ c[1] = d[1]

\* C11: when a per-unit or per-level callback returns an error process_lod
\* returns it and halts: it has failed exactly when the callback invoked last
\* returned Err, and from then on no callback is invoked and nothing changes.
C11_ErrorHaltsImmediately ==
    /\ [](call_result = "err" <=> lpc = "failed")
    /\ [][lpc = "failed" =>
            UNCHANGED <<emitted, lod_calls, last_call, call_result, coordinates, lpc>>]_vars

\* a per-unit callback of the loop failed while cells of its level were not emitted yet
C11_Witness ==
    /\ lpc = "failed"
    /\ call_result = "err"
    /\ last_call.kind = "unit"
    /\ last_call.lod >= 1
    /\ emit_left # {}

\* the highest level that has entries in a manifest (-1 when there is none)
MaxLevel(c) ==
    LET ls == {l \in DOMAIN c : DOMAIN c[l] # {}} IN
    IF ls = {} THEN -1 ELSE CHOOSE l \in ls : \A m \in ls : m <= l

\* C12: the lod handed to a per-level callback is the highest level that has
\* entries in the snapshot handed with it, plus one.
C12_LodIsMaxLevelPlusOne ==
    \A j \in 1 .. Len(lod_calls) :
        lod_calls[j].lod = MaxLevel(lod_calls[j].coordinates) + 1

\* the bounding box b contains the position p
Contains(b, p) == \A a \in 1 .. 3 : b.min[a] <= p[a] /\ p[a] <= b.max[a]

\* C13: in every manifest handed to a per-level callback, the bounding boxes
\* registered at a level that has entries cover every input point.
C13_OctreeCoverage ==
    \A j \in 1 .. Len(lod_calls) :
        LET c == lod_calls[j].coordinates IN
        \A l \in DOMAIN c :
            DOMAIN c[l] # {} =>
                \A i \in 1 .. Len(points) : \E ck \in DOMAIN c[l] : Contains(c[l][ck], points[i])

\* ---------------------------------------------------------- parser: claims
WellFormedF64 == {"7", "300"}
WellFormedU8 == {"7"}

AllIn(line, from, to, S) == \A n \in from .. to : line[n] \in S

PositionOf(line) == <<parse_f64(line[1]).v, parse_f64(line[2]).v, parse_f64(line[3]).v>>

RgbOf(line) ==
    [red |-> parse_u8(line[4]).v, green |-> parse_u8(line[5]).v, blue |-> parse_u8(line[6]).v]

ArityPolicy(line) ==
    IF Len(line) = 3 /\ AllIn(line, 1, 3, WellFormedF64)
    THEN [ok |-> TRUE, position |-> PositionOf(line), color |-> None, intensity |-> None]
    ELSE IF Len(line) = 4 /\ AllIn(line, 1, 4, WellFormedF64)
    THEN [ok |-> TRUE, position |-> PositionOf(line), color |-> None,
          intensity |-> Some(parse_f64(line[4]).v)]
    ELSE IF Len(line) = 6 /\ AllIn(line, 1, 3, WellFormedF64) /\ AllIn(line, 4, 6, WellFormedU8)
    THEN [ok |-> TRUE, position |-> PositionOf(line), color |-> Some(RgbOf(line)),
          intensity |-> None]
    ELSE IF /\ Len(line) = 7 /\ AllIn(line, 1, 3, WellFormedF64)
            /\ AllIn(line, 4, 6, WellFormedU8) /\ AllIn(line, 7, 7, WellFormedF64)
    THEN [ok |-> TRUE, position |-> PositionOf(line), color |-> Some(RgbOf(line)),
          intensity |-> Some(parse_f64(line[7]).v)]
    ELSE [ok |-> FALSE]

\* C14: a line of 3, 4, 6 or 7 well-formed tokens parses to the position, the
\* position and intensity, the position and colour, or all three; a line of
\* any other length, or with a token that does not parse, is an error
C14_ArityPolicy ==
    fpc = "returned" => ret = ArityPolicy(arg)

\* ---------------------------------------------------- bounding box: claims
\* C15: the box collected from a non-empty xs and then extended by p has the
\* min and max of the box collected from xs with p added, whatever the order
\* in which the points are yielded
C15_ExtendAgreesWithFromIter ==
    fpc = "returned" => (ret.box.min = ret.whole.min /\ ret.box.max = ret.whole.max)

\* p lies outside the box of xs and the second box is collected in another order
C15_Witness ==
    /\ fpc = "returned"
    /\ Len(arg.xs) >= 2
    /\ ret.box # from_iter(arg.xs)
    /\ arg.ys # Append(arg.xs, arg.p)
    /\ arg.ys[Len(arg.ys)] # arg.p

\* --------------------------------------------------------- encoder: claims
IsCeilSqrt(k, n) == k * k >= n /\ (k - 1) * (k - 1) < n

\* C16: for n >= 1 points the side of the image is the ceiling of the square
\* root of n, and every index below n is put at column idx mod side, row
\* idx div side, inside the image, at a pixel no other index is put at
C16_ImageDimensions ==
    /\ fpc # "panic"
    /\ (fpc \in {"put", "returned"} /\ arg.n >= 1) =>
          /\ IsCeilSqrt(ret.side, arg.n)
          /\ \A i \in 0 .. ret.idx - 1 :
                LET px == <<i % ret.side, i \div ret.side>> IN
                /\ px[1] \in 0 .. ret.side - 1
                /\ px[2] \in 0 .. ret.side - 1
                /\ px \in DOMAIN ret.image
                /\ ret.image[px] = i
          /\ Cardinality(DOMAIN ret.image) = ret.idx
    /\ fpc = "returned" => ret.idx = arg.n

\* an image with a last row that is partly filled
C16_Witness ==
    /\ fpc = "returned"
    /\ arg.n >= 5
    /\ ret.side * ret.side > arg.n
    /\ Cardinality(DOMAIN ret.image) = arg.n

\* floor(v01 * (2^32 - 1)), computed exactly
ExactFloor(v01) == ShiftRight(U32_MAX_times(v01), FracBits)

\* the fraction of v01 * (2^32 - 1), in units of 2^-FracBits
ExactFrac(v01) == [i \in 1 .. FracBits |-> Bit(U32_MAX_times(v01), i)]

\* v01 - u / (2^32 - 1) <= 2^-32 for u = floor(v01 * (2^32 - 1)): the fraction
\* of v01 * (2^32 - 1) is at most 1 - 2^-32
WithinTwoToMinus32(v01) ==
    ~ /\ \A i \in FracBits - U32Bits + 1 .. FracBits : ExactFrac(v01)[i] = 1
      /\ \E i \in 1 .. FracBits - U32Bits : ExactFrac(v01)[i] = 1

\* C17: for every v in [0, 1] the four octets of encode_8bit_4channels are,
\* low octet first, u = floor(v * (2^32 - 1)), and u / (2^32 - 1) is within
\* 2^-32 of v
C17_QuadInverse ==
    fpc = "returned" =>
        /\ \A k \in 0 .. 3 : ret[k + 1] = octet(ExactFloor(arg.v01), 8 * k)
        /\ WithinTwoToMinus32(arg.v01)

\* ------------------------------------------------------ scenarios: claims
\* C18: on three points 0.5 apart and radius 0.75 the serial sampler retains
\* exactly the first and the last point, whichever cell it starts from
C18_ScenarioS2 ==
    (spc = "done" /\ inputs = S2_inputs /\ radius_sq = S2_radius_sq) => Retained = {1, 3}

\* C19: on the corners of the unit cube and a radius just below sqrt(3) the
\* serial sampler retains exactly one point, whichever cell it starts from
C19_ScenarioS3 ==
    (spc = "done" /\ inputs = S3_inputs /\ radius_sq = S3_radius_sq) =>
        Cardinality(Retained) = 1

\* ----------------------------------------------- parallel sampler: claims
\* C20: is_completed() holds iff the partition queue is empty: after new() it
\* is false while fewer than max_iterations() calls of step() have succeeded
\* and true once exactly max_iterations() have
C20_CompletedAfterMaxIterations ==
    ppc = "ready" =>
        /\ is_completed <=> partitions = {}
        /\ p_steps < max_iterations => ~is_completed
        /\ p_steps = max_iterations => is_completed
        /\ p_steps <= max_iterations

\* a sampler of several partitions that has been stepped to completion
C20_Witness ==
    /\ ppc = "ready"
    /\ max_iterations >= 3
    /\ p_steps = max_iterations
    /\ is_completed

\* C21: for every input and radius max_iterations() is 27, also when the grid
\* has fewer than 3 cells along an axis
C21_MaxIterationsIs27 ==
    ppc = "ready" => max_iterations = 27

\* ------------------------------------------------ validity test: claims
AllOffsets == {-1, 0, 1}

\* some cell of the 27-cell neighbourhood of index(p), inside the grid, holds a
\* representative within r of p
RepresentativeNearby(p, g) ==
    \E dz \in AllOffsets, dy \in AllOffsets, dx \in AllOffsets :
       LET c == <<cell_index[p][1] + dx, cell_index[p][2] + dy, cell_index[p][3] + dz>> IN
       /\ InGrid(c, u_grid_size)
       /\ g[c].representative # 0
       /\ within_radius(inputs[p], inputs[g[c].representative], radius_sq)

\* C22: the serial validity test rejects p exactly when a cell of the 27-cell
\* neighbourhood of index(p) holds a representative within r of p, a
\* neighbour at offset +1 included
C22_ValidIffNeighbourhoodFree ==
    spc = "loop" =>
        \A c \in indices : \A n \in 1 .. Len(grid[c].candidates) :
            LET p == grid[c].candidates[n] IN
            is_valid(p, grid, inputs, cell_index, u_grid_size, radius_sq)
                <=> ~RepresentativeNearby(p, grid)

\* ------------------------------------------- parallel sampler: first step
\* the partition popped by the first step
FirstAddress == CHOOSE a \in partition_offsets(u_grid_size) : a \notin partitions

MultipleOf3(n) == n % 3 = 0

\* C23: after the first step every non-empty cell of the popped partition has
\* its first candidate as representative, no other cell has one, any two of
\* these cells differ by a multiple of 3 on every axis, and any two of the
\* representatives are farther than r apart
C23_FirstStepSeeds ==
    (ppc = "ready" /\ p_steps = 1) =>
        /\ \A c \in DOMAIN p_grid :
              p_grid[c].representative =
                 IF c \in items(FirstAddress, u_grid_size) /\ p_grid[c].candidates # <<>>
                 THEN p_grid[c].candidates[1] ELSE 0
        /\ \A c \in items(FirstAddress, u_grid_size), d \in items(FirstAddress, u_grid_size) :
              \A a \in 1 .. 3 : MultipleOf3(c[a] - d[a])
        /\ \A i \in p_samples(p_grid), j \in p_samples(p_grid) :
              i # j => FartherThanRadius(i, j)

\* the first step has seeded two cells at once
C23_Witness ==
    /\ ppc = "ready"
    /\ p_steps = 1
    /\ Cardinality(p_samples(p_grid)) >= 2

\* ------------------------------------------ parallel sampler: one step
\* the cells whose representative the step has written
Written == {c \in DOMAIN p_grid : p_grid'[c].representative # p_grid[c].representative}

\* the grid after the writes into the cells W only
PartlyMerged(W) == [c \in DOMAIN p_grid |-> IF c \in W THEN p_grid'[c] ELSE p_grid[c]]

\* the candidates of c that pass the validity test against the grid g
ValidIn(c, g) ==
    {n \in 1 .. Len(p_grid[c].candidates) :
        p_is_valid(p_grid[c].candidates[n], g, inputs, cell_index, u_grid_size, radius_sq)}

Neighbours(c, d) == \A a \in 1 .. 3 : c[a] - d[a] \in {-1, 0, 1}

\* C24: the picks of one step are written to cells that are neither equal nor
\* neighbours, and the tasks of the step find the same valid candidates
\* whichever of the other picks of the step are already written: the step is
\* the same as processing its cells one at a time in any order
C24_StepIsSequential ==
    [][(ppc = "ready" /\ p_steps' = p_steps + 1) =>
          LET address == CHOOSE a \in partitions : a \notin partitions'
              cells == items(address, u_grid_size)
          IN  /\ Written \subseteq cells
              /\ \A c \in Written, d \in Written : c # d => ~Neighbours(c, d)
              /\ \A c \in Written : cell_index[p_grid'[c].representative] = c
              /\ \A c \in cells : \A W \in SUBSET (Written \ {c}) :
                    ValidIn(c, PartlyMerged(W)) = ValidIn(c, p_grid)]_vars

\* a step has written two picks at once, and a task of a later step has read
\* the representatives of its neighbours and rejected its candidates
C24_Witness ==
    /\ ppc = "ready"
    /\ p_steps >= 2
    /\ Cardinality(p_samples(p_grid)) >= 2
    /\ \E c \in DOMAIN p_grid :
          /\ p_grid[c].candidates # <<>>
          /\ p_grid[c].representative = 0
          /\ \A a \in partitions : c \notin items(a, u_grid_size)

\* ------------------------------------------------------ grid cells: claims
\* the candidates of a cell as a set
CandidatesOf(cell) == {cell.candidates[n] : n \in 1 .. Len(cell.candidates)}

CellInvariant(g) ==
    \A c \in DOMAIN g :
        /\ visited(g[c]) <=> g[c].representative # 0
        /\ g[c].representative # 0 =>
              /\ g[c].representative \in CandidatesOf(g[c])
              /\ cell_index[g[c].representative] = c

\* once bucketed, a grid keeps its cells and their candidates, and a
\* representative that is set stays
CellsKept(g, h) ==
    g # <<>> =>
        /\ DOMAIN h = DOMAIN g
        /\ \A c \in DOMAIN g :
              /\ h[c].candidates = g[c].candidates
              /\ g[c].representative # 0 => h[c].representative = g[c].representative

\* C25: in a serial or parallel run a cell is visited iff it has a
\* representative, its candidates never change after bucketing, and its
\* representative, once set, is never replaced and is one of its own
\* candidates; the output is a set of inputs with at most one point per cell
C25_GridCellInvariant ==
    /\ [](CellInvariant(grid) /\ CellInvariant(p_grid))
    /\ [][CellsKept(grid, grid') /\ CellsKept(p_grid, p_grid')]_vars
    /\ [](spc = "done" =>
            /\ Retained \subseteq 1 .. Len(inputs)
            /\ \A n, m \in 1 .. Len(result) :
                  n # m => cell_index[result[n]] # cell_index[result[m]])
    /\ [](ppc = "ready" => p_samples(p_grid) \subseteq 1 .. Len(inputs))

\* a finished run that has given representatives to some non-empty cells and
\* left another without one
C25_Witness ==
    \/ /\ spc = "done"
       /\ Len(result) >= 1
       /\ \E c \in DOMAIN grid : grid[c].candidates # <<>> /\ ~visited(grid[c])
    \/ /\ ppc = "ready"
       /\ p_steps = partitions_count
       /\ Cardinality(p_samples(p_grid)) >= 2
       /\ \E c \in DOMAIN p_grid : p_grid[c].candidates # <<>> /\ ~visited(p_grid[c])

\* ------------------------------------------------------- bucketing: claims
\* C26: for a non-empty input and r > 0 the grid index of every input point
\* is below the grid dimension on every axis, also when the extent is an
\* exact multiple of the cell size
C26_IndexInsideGrid ==
    (spc # "new" /\ inputs # <<>> /\ radius_sq[1] > 0) =>
        \A i \in 1 .. Len(inputs) : \A a \in 1 .. 3 : cell_index[i][a] < u_grid_size[a]

\* ---------------------------------------------------- pipeline: coverage
\* the input points handed to the per-unit callback so far
EmittedPoints ==
    UNION {{emitted[cell].pts[n] : n \in 1 .. Len(emitted[cell].pts)} : cell \in DOMAIN emitted}

\* C27: when process_lod returns, every input point has been passed to the
\* per-unit callback in an emitted cell of some level
C27_NoPointLost ==
    lpc = "done" => \A i \in 1 .. Len(points) : i \in EmittedPoints

\* ------------------------------------------------------ partitions: claims
\* C28: the cells of the popped partitions are pairwise disjoint and their
\* union is the whole grid, for every grid size
C28_PartitionsTileGrid ==
    fpc = "returned" =>
        /\ \A a, b \in DOMAIN ret : a # b => ret[a] \cap ret[b] = {}
        /\ UNION {ret[a] : a \in DOMAIN ret} = Cells(arg.grid_count)

\* a grid that is short along one axis and no multiple of 3 along another
C28_Witness ==
    /\ fpc = "returned"
    /\ arg.grid_count = <<4, 2, 5>>
    /\ Cardinality(DOMAIN ret) = 18
    /\ \E a \in DOMAIN ret : Cardinality(ret[a]) >= 4

\* ---------------------------------------------- serial sampler: termination
Unvisited == Cardinality({c \in DOMAIN grid : ~visited(grid[c])})

\* falls with every iteration of the while loop
LoopVariant == 2 * Unvisited + Len(actives) + Cardinality(indices)

\* what one iteration does
VisitsACell == \E c \in DOMAIN grid : ~visited(grid[c]) /\ visited(grid'[c])
DropsPending == indices' \subseteq indices /\ indices' # indices
PopsActive == actives # <<>> /\ actives' = Tail(actives)

\* C29: the main loop of the serial sampler terminates: every iteration gives
\* a representative to an unvisited cell, removes a cell from indices, or
\* removes the head of actives, so a natural number falls with every
\* iteration; the loop is left with indices empty
C29_SerialLoopTerminates ==
    /\ [][(spc = "loop" /\ spc' = "loop") =>
            /\ VisitsACell \/ DropsPending \/ PopsActive
            /\ LoopVariant' < LoopVariant
            /\ LoopVariant' >= 0]_vars
    /\ [][(spc = "loop" /\ spc' # "loop") => (indices = {} /\ spc' = "done")]_vars

\* the loop has run and ended with a cell it visited and a cell it dropped
C29_Witness ==
    /\ spc = "done"
    /\ Len(result) >= 1
    /\ actives = <<>>
    /\ \E c \in DOMAIN grid : grid[c].candidates # <<>> /\ ~visited(grid[c])

\* ------------------------------------------ parallel sampler: extra steps
\* C30: step() on a completed sampler returns an error and leaves every
\* representative and the result of samples() unchanged
C30_ExtraStepChangesNothing ==
    [][(ppc = "ready" /\ is_completed) =>
          /\ p_errs' = p_errs + 1
          /\ p_steps' = p_steps
          /\ \A c \in DOMAIN p_grid : p_grid'[c].representative = p_grid[c].representative
          /\ p_samples(p_grid') = p_samples(p_grid)
          /\ is_completed']_vars

\* a completed sampler with two samples has been stepped once more
C30_Witness ==
    /\ ppc = "ready"
    /\ is_completed
    /\ p_steps = max_iterations
    /\ p_errs >= 1
    /\ Cardinality(p_samples(p_grid)) >= 2

====
